---- MODULE Spec2Model ----
(***************************************************************************)
(* A model of blank.js, the "blank" templating system.                     *)
(*                                                                         *)
(* Strings are sequences of one-character strings.  makeRun is translated  *)
(* character by character; the generated source is then read by a small    *)
(* evaluator for the statement forms the templates of this model use       *)
(* (calls, awaited calls, throw), which stands for the host's Function and *)
(* AsyncFunction constructors.  includeSync is one atomic operation; the   *)
(* async include is a state machine that is suspended at its file read and *)
(* at each awaited nested include.                                         *)
(***************************************************************************)
EXTENDS Integers, Sequences, FiniteSets, TLC

VARIABLES
    heap,       \* the objects of the program: heap[id] is an ordered list of <<key, value>>
    frames,     \* every run of includeSync / include so far, in order of creation
    log,        \* the observable events: file reads, host function calls, callbacks, returns
    calls,      \* number of top-level calls made so far
    template,   \* transpiler bench: the template text
    asyncMode,  \* transpiler bench: makeRun's asyncMode argument
    run,        \* transpiler bench: makeRun's result
    written     \* transpiler bench: the outcome of evaluating the generated source

vars == <<heap, frames, log, calls, template, asyncMode, run, written>>

----------------------------------------------------------------------------
(* Bounds of the model *)

\* top-level calls made in one behaviour
MaxCalls == 2
\* pieces concatenated into a template of the transpiler bench
MaxPieces == 4

----------------------------------------------------------------------------
(* Characters and strings *)

BS == "\\"
SQ == "'"
CR == "\r"
LF == "\n"

Min(a, b) == IF a < b THEN a ELSE b

\* the element of a one-element set.  An operator that uses an intermediate
\* result more than once binds it as x \in {result}, so that it is computed once.
The(S) == CHOOSE r \in S : TRUE

\* String.prototype.substr(i, n) with a 1-based index
Substr(s, i, n) == SubSeq(s, i, Min(i + n - 1, Len(s)))

\* String.prototype.startsWith
StartsWith(s, p) == Len(s) >= Len(p) /\ SubSeq(s, 1, Len(p)) = p

----------------------------------------------------------------------------
(* Values of the host language *)

Val(k, s, n) == [k |-> k, n |-> n, s |-> s]
Undefined == Val("undefined", <<>>, 0)
Null == Val("null", <<>>, 0)
Str(s) == Val("string", s, 0)
Num(n) == Val("number", <<>>, n)
Obj(id) == Val("object", <<>>, id)
\* a function supplied by the host program, known by its name
HostFn(name) == Val("function", name, 0)
\* new Error(message)
ErrorObj(msg) == Val("error", msg, 0)
\* a thrown string (includeSync throws a bare string)
NoThrow == Val("nothrow", <<>>, 0)

\* typeof
TypeOf(v) ==
    CASE v.k \in {"function", "include", "includeAsync", "require"} -> "function"
      [] v.k \in {"object", "null", "error", "promise"} -> "object"
      [] OTHER -> v.k

\* ToBoolean
Truthy(v) ==
    CASE v.k \in {"undefined", "null"} -> FALSE
      [] v.k = "string" -> v.s # <<>>
      [] v.k = "number" -> v.n # 0
      [] OTHER -> TRUE

----------------------------------------------------------------------------
(* makeRun: the transpiler *)

DefaultStartDelim == <<"%", "{">>
\* the end delimiter the other way round: what C16 rests on
PercentBrace == <<"%", "}">>
DefaultEndDelim == <<"}", "%">>
IncludeCall == <<"i", "n", "c", "l", "u", "d", "e", "(">>
\* include( put out as it is, without the await: what C17 rests on
IncludeCallAsItIs == IncludeCall
AwaitIncludeCall == <<"a", "w", "a", "i", "t", " ">> \o IncludeCall
RunPrefix == <<"'", "u", "s", "e", " ", "s", "t", "r", "i", "c", "t", "'", ";", " ",
               "w", "r", "i", "t", "e", "(", "'">>
CloseWrite == <<"'", ")", ";">>
OpenWrite == <<"w", "r", "i", "t", "e", "(", "'">>

\* String(path): the message of line 193 concatenates the path module, not a file name
PathModuleAsString == "[object Object]"

UnpairedError == ErrorObj(<<"File '", PathModuleAsString, "' has an un-paired %{">>)

\* the result of a call that may throw
Ok(r) == [ok |-> TRUE, run |-> r, err |-> NoThrow]
Threw(e) == [ok |-> FALSE, run |-> <<>>, err |-> e]

\* EscapeChar without the escapes: what C7 rests on
EscapeNothing(c) == <<c>>

\* one character in WRITE state (lines 170-178)
EscapeChar(c) ==
    CASE c = CR -> <<BS, "r">>
      [] c = LF -> <<BS, "n", BS, LF>>
      [] c = BS \/ c = SQ -> <<BS, c>>
      [] OTHER -> <<c>>

\* the state of the scan: i the next index the loop visits (1-based), inWrite, run
Scan(i, inWrite, r) == [i |-> i, inWrite |-> inWrite, run |-> r]

\* the body of the for loop (lines 165-191) at index k, together with the
\* loop's ++i; an index that an earlier iteration stepped over is not visited
makeRunStep(tpl, am, startDelim, endDelim, s, k) ==
    IF k < s.i THEN s
    ELSE IF s.inWrite THEN
        IF Substr(tpl, k, 2) = startDelim THEN Scan(k + 2, FALSE, s.run \o CloseWrite)
        ELSE Scan(k + 1, TRUE, s.run \o EscapeChar(tpl[k]))
    ELSE
        IF am /\ Substr(tpl, k, 8) = IncludeCall THEN Scan(k + 8, FALSE, s.run \o AwaitIncludeCall)
        ELSE IF Substr(tpl, k, 2) = endDelim THEN Scan(k + 2, TRUE, s.run \o OpenWrite)
        ELSE Scan(k + 1, FALSE, s.run \o <<tpl[k]>>)

\* the for loop of lines 164-192 over the indexes lo..hi, in order (halving
\* the range keeps the evaluation shallow; indexes below s.i are stepped over)
RECURSIVE makeRunLoop(_, _, _, _, _, _, _)
makeRunLoop(tpl, am, startDelim, endDelim, from, lo, hi) ==
    The({ IF lo > hi \/ s.i > hi THEN s
          ELSE IF lo = hi THEN makeRunStep(tpl, am, startDelim, endDelim, s, lo)
          ELSE makeRunLoop(tpl, am, startDelim, endDelim,
                           makeRunLoop(tpl, am, startDelim, endDelim, s, lo, (lo + hi) \div 2),
                           ((lo + hi) \div 2) + 1, hi)
          : s \in {from} })

\* makeRun without the check of line 193: what C3 rests on
makeRunUnchecked(text, am, startDelim, endDelim) ==
    The({ Ok(makeRunLoop(tpl, am, startDelim, endDelim, Scan(1, TRUE, RunPrefix),
                         1, Len(tpl)).run \o CloseWrite)
          : tpl \in {text} })

\* makeRun taking the end of the template for the end of an open code
\* section, instead of throwing: what C18 rests on
makeRunClosingCode(text, am, startDelim, endDelim) ==
    The({ Ok(end.run \o (IF end.inWrite THEN CloseWrite ELSE <<>>))
          : end \in { makeRunLoop(tpl, am, startDelim, endDelim,
                                  Scan(1, TRUE, RunPrefix), 1, Len(tpl))
                      : tpl \in {text} } })

makeRun(text, am, startDelim, endDelim) ==
    The({ IF ~end.inWrite THEN Threw(UnpairedError) ELSE Ok(end.run \o CloseWrite)
          : end \in { makeRunLoop(tpl, am, startDelim, endDelim,
                                  Scan(1, TRUE, RunPrefix), 1, Len(tpl))
                      : tpl \in {text} } })

----------------------------------------------------------------------------
(* The host's reading of generated source: Reflect.construct(Function, ...) *)
(* and Reflect.construct(AsyncFunction, ...), for the statement forms       *)
(*     e;   f(e, ...);   await f(e, ...);   throw e;                        *)
(* with e a string literal, a number or an identifier, the escapes \n, \r,   *)
(* \t, line continuations and escaped punctuation in string literals, and a *)
(* line break in place of a semicolon.                                      *)

Letters == {"a", "b", "c", "d", "e", "f", "g", "h", "i", "j", "k", "l", "m",
            "n", "o", "p", "q", "r", "s", "t", "u", "v", "w", "x", "y", "z",
            "A", "B", "C", "D", "E", "F", "G", "H", "I", "J", "K", "L", "M",
            "N", "O", "P", "Q", "R", "S", "T", "U", "V", "W", "X", "Y", "Z",
            "_", "$"}
Digits == {"0", "1", "2", "3", "4", "5", "6", "7", "8", "9"}
WhiteSpace == {" ", "\t", LF, CR}
Punctuation == {"(", ")", ",", ";"}

DigitValue(c) ==
    CASE c = "0" -> 0 [] c = "1" -> 1 [] c = "2" -> 2 [] c = "3" -> 3 [] c = "4" -> 4
      [] c = "5" -> 5 [] c = "6" -> 6 [] c = "7" -> 7 [] c = "8" -> 8 [] c = "9" -> 9

RECURSIVE NumberValue(_)
NumberValue(ds) ==
    IF ds = <<>> THEN 0
    ELSE 10 * NumberValue(SubSeq(ds, 1, Len(ds) - 1)) + DigitValue(ds[Len(ds)])

\* the character a backslash escape inside a string literal stands for;
\* <<>> for a line continuation
Unescape(c) ==
    CASE c = "n" -> <<LF>>
      [] c = "r" -> <<CR>>
      [] c = "t" -> <<"\t">>
      [] c = LF \/ c = CR -> <<>>
      [] OTHER -> <<c>>

\* a token: its kind (str, num, id, p), its text, and whether a line break
\* separates it from the token before
Token(t, s, nl) == [t |-> t, s |-> s, nl |-> nl]

\* the state of the lexer: mode is top, str (inside a string literal), esc
\* (after a backslash in one), cr (after a backslash and a carriage return),
\* id or num; cur the characters of the token so far; nl: a line break was
\* passed since the last token
Lex(mode, cur, toks, bad, nl) ==
    [mode |-> mode, cur |-> cur, toks |-> toks, bad |-> bad, nl |-> nl]

\* a character met outside any token
LexTop(s, c) ==
    CASE c = LF \/ c = CR -> Lex("top", <<>>, s.toks, FALSE, TRUE)
      [] c \in WhiteSpace \ {LF, CR} -> Lex("top", <<>>, s.toks, FALSE, s.nl)
      [] c = SQ -> Lex("str", <<>>, s.toks, FALSE, s.nl)
      [] c \in Letters -> Lex("id", <<c>>, s.toks, FALSE, s.nl)
      [] c \in Digits -> Lex("num", <<c>>, s.toks, FALSE, s.nl)
      [] c \in Punctuation ->
            Lex("top", <<>>, Append(s.toks, Token("p", <<c>>, s.nl)), FALSE, FALSE)
      [] OTHER -> Lex("top", <<>>, s.toks, TRUE, s.nl)

\* the identifier or number being read ends
LexFlush(s) == Lex("top", <<>>, Append(s.toks, Token(s.mode, s.cur, s.nl)), FALSE, FALSE)

\* a character inside a string literal: the literal ends at its closing quote, a
\* line break inside it is an error, a backslash escapes the next character
LexStr(s, c) ==
    CASE c = SQ -> Lex("top", <<>>, Append(s.toks, Token("str", s.cur, s.nl)), FALSE, FALSE)
      [] c = BS -> Lex("esc", s.cur, s.toks, FALSE, s.nl)
      [] c = LF \/ c = CR -> Lex("str", s.cur, s.toks, TRUE, s.nl)
      [] OTHER -> Lex("str", Append(s.cur, c), s.toks, FALSE, s.nl)

\* one character of the source
LexStep(s, c) ==
    CASE s.bad -> s
      [] ~s.bad /\ s.mode = "top" -> LexTop(s, c)
      [] ~s.bad /\ s.mode = "str" -> LexStr(s, c)
      [] ~s.bad /\ s.mode = "esc" ->
            Lex(IF c = CR THEN "cr" ELSE "str", s.cur \o Unescape(c), s.toks, FALSE, s.nl)
      [] ~s.bad /\ s.mode = "cr" ->
            \* backslash, carriage return, line feed is one line continuation
            IF c = LF THEN Lex("str", s.cur, s.toks, FALSE, s.nl) ELSE LexStr(s, c)
      [] ~s.bad /\ s.mode = "id" ->
            IF c \in Letters \cup Digits THEN Lex("id", Append(s.cur, c), s.toks, FALSE, s.nl)
            ELSE LexTop(LexFlush(s), c)
      [] ~s.bad /\ s.mode = "num" ->
            IF c \in Digits THEN Lex("num", Append(s.cur, c), s.toks, FALSE, s.nl)
            ELSE LexTop(LexFlush(s), c)

\* the characters lo..hi of src, in order (halving the range keeps the
\* evaluation shallow; nothing is read after an error)
RECURSIVE LexLoop(_, _, _, _)
LexLoop(src, from, lo, hi) ==
    The({ IF lo > hi \/ s.bad THEN s
          ELSE IF lo = hi THEN LexStep(s, src[lo])
          ELSE LexLoop(src, LexLoop(src, s, lo, (lo + hi) \div 2), ((lo + hi) \div 2) + 1, hi)
          : s \in {from} })

BadToken == Token("bad", <<>>, FALSE)

\* the tokens of src; a BadToken ends the list where the text leaves the
\* forms above or a string literal is not closed
Tokenize(source) ==
    The({ CASE end.bad \/ end.mode \in {"str", "esc", "cr"} -> Append(end.toks, BadToken)
            [] ~end.bad /\ end.mode \in {"id", "num"} -> LexFlush(end).toks
            [] OTHER -> end.toks
          : end \in { LexLoop(src, Lex("top", <<>>, <<>>, FALSE, FALSE), 1, Len(src))
                      : src \in {source} } })

IsP(toks, i, c) == i <= Len(toks) /\ toks[i].t = "p" /\ toks[i].s = <<c>>
IsExpr(toks, i) == i <= Len(toks) /\ toks[i].t \in {"str", "num", "id"}
IsId(toks, i) == i <= Len(toks) /\ toks[i].t = "id"
IsWord(toks, i, w) == IsId(toks, i) /\ toks[i].s = w
AwaitWord == <<"a", "w", "a", "i", "t">>
ThrowWord == <<"t", "h", "r", "o", "w">>

\* the end of a statement whose last token is before i: the index after its
\* semicolon, or i itself where a semicolon is inserted (end of the source, or a
\* line break before a token that cannot continue the statement); 0 if neither
StmtEnd(toks, i) ==
    IF IsP(toks, i, ";") THEN i + 1
    ELSE IF i > Len(toks) THEN i
    ELSE IF toks[i].nl /\ toks[i].t \in {"str", "num", "id"} THEN i
    ELSE 0

\* the argument list that starts after "(" at i: [ok, args, next]
RECURSIVE ParseArgs(_, _, _)
ParseArgs(toks, i, acc) ==
    IF IsP(toks, i, ")") /\ acc = <<>> THEN [ok |-> TRUE, args |-> acc, next |-> i + 1]
    ELSE IF ~IsExpr(toks, i) THEN [ok |-> FALSE, args |-> acc, next |-> i]
    ELSE IF IsP(toks, i + 1, ")")
        THEN [ok |-> TRUE, args |-> Append(acc, toks[i]), next |-> i + 2]
    ELSE IF IsP(toks, i + 1, ",") THEN ParseArgs(toks, i + 2, Append(acc, toks[i]))
    ELSE [ok |-> FALSE, args |-> acc, next |-> i]

Stmt(op, aw, fn, args) == [op |-> op, aw |-> aw, fn |-> fn, args |-> args]
Parsed(stmts) == [ok |-> TRUE, stmts |-> stmts]
SyntaxError == [ok |-> FALSE, stmts |-> <<>>]

\* a call statement whose callee is at i, awaited or not
CallAt(toks, i, aw) ==
    The({ IF IsId(toks, i) /\ IsP(toks, i + 1, "(") /\ a.ok /\ StmtEnd(toks, a.next) # 0
          THEN [ok |-> TRUE, stmt |-> Stmt("call", aw, toks[i].s, a.args),
                next |-> StmtEnd(toks, a.next)]
          ELSE [ok |-> FALSE, stmt |-> Stmt("call", aw, <<>>, <<>>), next |-> i]
          : a \in {ParseArgs(toks, i + 2, <<>>)} })

\* the statements of a function body; isAsync: the body of an AsyncFunction
\* one statement at i: [ok, stmt, next]
StmtAt(toks, i, isAsync) ==
    IF IsWord(toks, i, ThrowWord) THEN
        \* no line break may follow throw
        [ok |-> IsExpr(toks, i + 1) /\ ~toks[i + 1].nl /\ StmtEnd(toks, i + 2) # 0,
         stmt |-> Stmt("throw", FALSE, <<>>, IF IsExpr(toks, i + 1) THEN <<toks[i + 1]>> ELSE <<>>),
         next |-> StmtEnd(toks, i + 2)]
    ELSE IF IsWord(toks, i, AwaitWord) THEN
        \* await is an operator only inside an AsyncFunction
        [CallAt(toks, i + 1, TRUE) EXCEPT !.ok = @ /\ isAsync]
    ELSE IF IsId(toks, i) /\ IsP(toks, i + 1, "(") THEN CallAt(toks, i, FALSE)
    ELSE \* an expression statement; 'use strict' is one
        [ok |-> IsExpr(toks, i) /\ StmtEnd(toks, i + 1) # 0,
         stmt |-> Stmt("expr", FALSE, <<>>, IF IsExpr(toks, i) THEN <<toks[i]>> ELSE <<>>),
         next |-> StmtEnd(toks, i + 1)]

\* the statements of a function body from token i on; isAsync: the body of an AsyncFunction
RECURSIVE ParseStmts(_, _, _, _)
ParseStmts(toks, i, acc, isAsync) ==
    IF i > Len(toks) THEN Parsed(acc)
    ELSE IF IsP(toks, i, ";") THEN ParseStmts(toks, i + 1, acc, isAsync)
    ELSE The({ IF ~one.ok THEN SyntaxError
               ELSE ParseStmts(toks, one.next, Append(acc, one.stmt), isAsync)
               : one \in {StmtAt(toks, i, isAsync)} })

\* the body of new Function(..., src) / new AsyncFunction(..., src)
FunctionBody(src, isAsync) ==
    The({ ParseStmts(toks, 1, <<>>, isAsync) : toks \in {Tokenize(src)} })

----------------------------------------------------------------------------
(* Objects: ordered lists of <<key, value>>, keys in insertion order *)

Keys(d) == [i \in 1..Len(d) |-> d[i][1]]
Has(d, key) == \E i \in 1..Len(d) : d[i][1] = key
Get(d, key) == IF Has(d, key) THEN d[CHOOSE i \in 1..Len(d) : d[i][1] = key][2] ELSE Undefined
Put(d, key, v) ==
    IF Has(d, key) THEN [i \in 1..Len(d) |-> IF d[i][1] = key THEN <<key, v>> ELSE d[i]]
    ELSE Append(d, <<key, v>>)

\* Object.assign(target, source)
RECURSIVE ObjectAssign(_, _)
ObjectAssign(target, source) ==
    The({ IF from = <<>> THEN to
          ELSE ObjectAssign(Put(to, Head(from)[1], Head(from)[2]), Tail(from))
          : to \in {target}, from \in {source} })

\* the own properties of a value as Object.assign reads them
Properties(h, v) == IF v.k = "object" THEN h[v.n] ELSE <<>>

----------------------------------------------------------------------------
(* Paths and the file store *)

Slash == "/"

\* the segments of a path between its slashes
RECURSIVE Split(_, _, _)
Split(path, segment, segments) ==
    The({ IF p = <<>> THEN Append(acc, cur)
          ELSE IF Head(p) = Slash THEN Split(Tail(p), <<>>, Append(acc, cur))
          ELSE Split(Tail(p), Append(cur, Head(p)), acc)
          : p \in {path}, cur \in {segment}, acc \in {segments} })

\* the segments of a path with "", "." and ".." taken out
RECURSIVE NormalSegments(_, _)
NormalSegments(segments, normal) ==
    The({ IF segs = <<>> THEN acc
          ELSE IF Head(segs) = <<>> \/ Head(segs) = <<".">> THEN NormalSegments(Tail(segs), acc)
          ELSE IF Head(segs) = <<".", ".">>
              THEN NormalSegments(Tail(segs),
                                  IF acc = <<>> THEN acc ELSE SubSeq(acc, 1, Len(acc) - 1))
          ELSE NormalSegments(Tail(segs), Append(acc, Head(segs)))
          : segs \in {segments}, acc \in {normal} })

RECURSIVE JoinSegments(_)
JoinSegments(segments) ==
    The({ IF segs = <<>> THEN <<>> ELSE <<Slash>> \o Head(segs) \o JoinSegments(Tail(segs))
          : segs \in {segments} })

\* path.posix.isAbsolute
isAbsolute(p) == p # <<>> /\ p[1] = Slash

\* the working directory of the process
Cwd == <<Slash, "d">>

\* path.resolve(p)
Resolve(path) ==
    The({ IF segs = <<>> THEN <<Slash>> ELSE JoinSegments(segs)
          : segs \in { NormalSegments(
                           Split(IF isAbsolute(p) THEN p ELSE Cwd \o <<Slash>> \o p, <<>>, <<>>),
                           <<>>)
                       : p \in {path} } })

\* path.posix.dirname of a resolved path
Dirname(path) ==
    The({ IF Len(segs) <= 1 THEN <<Slash>> ELSE JoinSegments(SubSeq(segs, 1, Len(segs) - 1))
          : segs \in {NormalSegments(Split(path, <<>>, <<>>), <<>>)} })

----------------------------------------------------------------------------
(* The template files of the model *)

Quoted(text) == <<SQ>> \o text \o <<SQ>>
WriteWord == <<"w", "r", "i", "t", "e">>
\* template code: a call statement, a throw statement, a code section
CallStmt(fn, args) == fn \o <<"(">> \o args \o <<")", ";">>
IncludeStmt(args) == IncludeCall \o args \o <<")", ";">>
ThrowStmt(e) == ThrowWord \o <<" ">> \o e \o <<";">>
Code(c) == DefaultStartDelim \o c \o DefaultEndDelim

P(dir, name) == dir \o <<Slash>> \o name
DirD == <<Slash, "d">>
DirS == <<Slash, "d", Slash, "s">>
DirA == <<Slash, "a">>

\* the files on disk: <<path, contents>>
FileList ==
    <<
        \* /d/m includes s/x, which includes y: the y of /d/s, not the y of /d
        <<P(DirD, <<"m">>), <<"A">> \o Code(IncludeStmt(Quoted(<<"s", Slash, "x">>))) \o <<"C">>>>,
        <<P(DirS, <<"x">>), <<"B">> \o Code(IncludeStmt(Quoted(<<"y">>))) \o <<"D">>>>,
        <<P(DirS, <<"y">>), <<"Y">>>>,
        <<P(DirD, <<"y">>), <<"Z">>>>,
        \* an absolute include
        <<P(DirD, <<"q">>), <<"P">> \o Code(IncludeStmt(Quoted(P(DirA, <<"x">>)))) \o <<"Q">>>>,
        <<P(DirA, <<"x">>), <<"X">>>>,
        \* /d/t throws the value of e; /d/n includes t; /d/k includes n
        <<P(DirD, <<"t">>), <<"T">> \o Code(ThrowStmt(<<"e">>)) \o <<"U">>>>,
        <<P(DirD, <<"n">>), <<"N">> \o Code(IncludeStmt(Quoted(<<"t">>))) \o <<"M">>>>,
        <<P(DirD, <<"k">>), <<"K">> \o Code(IncludeStmt(Quoted(<<"n">>))) \o <<"L">>>>,
        \* an unterminated code section, alone and included
        <<P(DirD, <<"u">>), <<"a", "b", "c", " ">> \o DefaultStartDelim \o <<" ">>
                             \o CallStmt(WriteWord, <<"1">>)>>,
        <<P(DirD, <<"v">>), <<"V">> \o Code(IncludeStmt(Quoted(<<"u">>))) \o <<"W">>>>,
        \* an include with an override object, and a template that writes a, b, c
        <<P(DirD, <<"o">>), <<"O">> \o Code(IncludeStmt(Quoted(<<"p">>) \o <<",", "o">>)) \o <<"R">>>>,
        <<P(DirD, <<"p">>), Code(CallStmt(WriteWord, <<"a">>) \o CallStmt(WriteWord, <<"b">>)
                                  \o CallStmt(WriteWord, <<"c">>))>>,
        \* an include of a file that does not exist
        <<P(DirD, <<"i">>), <<"I">> \o Code(IncludeStmt(Quoted(<<"z", "z">>))) \o <<"J">>>>,
        \* two includes in one code section, a write between them, and a require
        <<P(DirD, <<"w">>), <<LF>> \o Code(IncludeStmt(Quoted(<<"y">>))
                                  \o CallStmt(WriteWord, Quoted(<<BS, SQ>>))
                                  \o IncludeStmt(Quoted(<<"s", Slash, "y">>))
                                  \o CallStmt(<<"r", "e", "q", "u", "i", "r", "e">>,
                                              Quoted(<<".", Slash, "l">>))) \o <<"E", SQ>>>>,
        \* custom delimiters, given in the options of includeSync
        <<P(DirD, <<"c">>), <<"F", "<", "?">> \o IncludeStmt(Quoted(<<"y">>))
                             \o <<"?", ">", "G">>>>,
        \* custom delimiters around an include of a template that has both kinds
        <<P(DirD, <<"b">>), <<"B", "<", "?">> \o IncludeStmt(Quoted(<<"j">>))
                             \o <<"?", ">", "D">>>>,
        <<P(DirD, <<"j">>), <<"<", "?", "J", "?", ">">> \o Code(CallStmt(WriteWord, <<"1">>))>>,
        \* text and a closed code section before an unterminated one
        <<P(DirD, <<"h">>), <<"H">> \o Code(CallStmt(WriteWord, Quoted(<<"b">>))) \o <<"G">>
                             \o DefaultStartDelim \o <<" ">>>>
    >>

\* fs.readFileSync / fs.readFile: the contents of the file at a resolved path
Files ==
    [path \in {FileList[i][1] : i \in 1..Len(FileList)} |->
        FileList[CHOOSE i \in 1..Len(FileList) : FileList[i][1] = path][2]]

\* the error of a failed read
ReadError(filepath) == ErrorObj(<<"ENOENT">> \o filepath)

----------------------------------------------------------------------------
(* The objects the host program passes in *)

WriteFn == HostFn(<<"w">>)
KWrite == WriteWord
KInclude == <<"i", "n", "c", "l", "u", "d", "e">>
KRequire == <<"r", "e", "q", "u", "i", "r", "e">>
KStartDelim == <<"s", "t", "a", "r", "t", "D", "e", "l", "i", "m">>
KEndDelim == <<"e", "n", "d", "D", "e", "l", "i", "m">>

InitialHeap == <<
    (* 1 *) << <<KWrite, WriteFn>> >>,
    (* 2 *) << <<KWrite, WriteFn>>, <<<<"a">>, Num(1)>>, <<<<"b">>, Num(2)>>, <<<<"o">>, Obj(3)>> >>,
    (* 3 *) << <<<<"b">>, Num(3)>>, <<<<"c">>, Num(4)>> >>,
    (* 4 *) << <<KWrite, WriteFn>>, <<<<"e">>, Str(<<"E">>)>> >>,
    (* 5 *) << <<KWrite, WriteFn>>, <<<<"e">>, Num(0)>> >>,
    (* 6 *) << <<KWrite, WriteFn>>, <<KInclude, HostFn(<<"i">>)>>, <<KRequire, HostFn(<<"r">>)>> >>,
    (* 7 *) << <<KRequire, HostFn(<<"r">>)>>, <<KWrite, WriteFn>> >>,
    (* 8 *) << <<KWrite, Num(1)>> >>,
    (* 9 *) << <<KStartDelim, Str(<<"<", "?">>)>>, <<KEndDelim, Str(<<"?", ">">>)>> >>,
    (* 10 *) << <<KWrite, WriteFn>>, <<<<"e">>, Undefined>> >>
>>

Input(filepath, dict, options) == [filepath |-> filepath, dict |-> dict, options |-> options]

\* the top-level calls of the model: a file, a context, options
Inputs ==
    { Input(P(DirD, <<f>>), Obj(1), Undefined) : f \in {"m", "q", "u", "v", "i", "w", "zz", "t"} }
    \cup { Input(<<"m">>, Obj(1), Undefined) }
    \cup { Input(P(DirD, <<f>>), Obj(d), Undefined) : f \in {"t", "n", "k"}, d \in {4, 5, 10} }
    \cup { Input(P(DirD, <<f>>), Obj(2), Undefined) : f \in {"o", "p"} }
    \cup { Input(P(DirD, <<"m">>), d, Undefined) :
             d \in {Obj(3), Obj(6), Obj(7), Obj(8), Undefined, Null, Str(<<"s">>)} }
    \cup { Input(P(DirD, <<"w">>), Obj(d), Undefined) : d \in {6, 7} }
    \cup { Input(P(DirD, <<f>>), Obj(1), Obj(9)) : f \in {"c", "b"} }
    \cup { Input(P(DirD, <<"h">>), Obj(1), Undefined) }

----------------------------------------------------------------------------
(* Runs.  A state st is [heap, frames, log]: the operators below take one  *)
(* and give the next.                                                      *)

Event(e, f, ip, fn, v) == [e |-> e, f |-> f, ip |-> ip, fn |-> fn, v |-> v]

Emit(st, ev) == [st EXCEPT !.log = Append(@, ev)]

\* a new object holding props; its id is Len(heap) afterwards
Allocate(st, props) == [st EXCEPT !.heap = Append(@, props)]

NewFrame(mode, parent, at, awaited, filepath, dict) ==
    [mode |-> mode,           \* "sync": includeSync, "async": include
     parent |-> parent,       \* the frame whose code called include, 0 for a top-level call
     at |-> at,               \* the statement of the parent that made the call
     awaited |-> awaited,     \* the parent awaits this run's promise
     filepath |-> filepath,
     dict |-> dict,
     options |-> Undefined,   \* the options of includeSync; include has none
     dirname |-> <<>>,
     pc |-> "start",          \* start, reading, running, awaiting, returned, threw, done
     names |-> <<>>,          \* FunctionArgs / AsyncFunctionArgs without the body
     args |-> <<>>,           \* funcArgs
     body |-> <<>>,           \* the statements of func
     ip |-> 1,                \* the statement func is at
     err |-> NoThrow,         \* what the run threw
     cb |-> 0,                \* how often the run's callback was invoked
     promise |-> "pending"]   \* the promise of lines 138-146: pending, resolved, rejected

DictError == <<"d", "i", "c", "t", " ", "m", "u", "s", "t", " ", "b", "e">>
TypeError(what) == ErrorObj(<<"TypeError">> \o what)
ReferenceError(name) == ErrorObj(<<"ReferenceError">> \o name)
SyntaxErrorValue == ErrorObj(<<"SyntaxError">>)

\* lines 31 and 94: typeof(dict) !== "object" || typeof(dict.write) !== "function"
DictRejected(h, dict) ==
    TypeOf(dict) # "object" \/ TypeOf(Get(Properties(h, dict), KWrite)) # "function"

\* lines 43-76 and 106-148: the parameter names and the argument values
InjectedRequire(dirname) == Val("require", dirname, 0)
InjectedInclude(mode, dirname, dict) ==
    Val(IF mode = "sync" THEN "include" ELSE "includeAsync", dirname, dict.n)

FunctionArgsOf(props) ==
    Keys(props)
      \o (IF Has(props, KRequire) THEN <<>> ELSE <<KRequire>>)
      \o (IF Has(props, KInclude) THEN <<>> ELSE <<KInclude>>)

\* funcArgsOf with the two injected functions pushed in the other order: what C9 rests on
funcArgsIncludeFirst(props, mode, dirname, dict) ==
    [i \in 1..Len(props) |-> props[i][2]]
      \o (IF Has(props, KInclude) THEN <<>> ELSE <<InjectedInclude(mode, dirname, dict)>>)
      \o (IF Has(props, KRequire) THEN <<>> ELSE <<InjectedRequire(dirname)>>)

funcArgsOf(props, mode, dirname, dict) ==
    [i \in 1..Len(props) |-> props[i][2]]
      \o (IF Has(props, KRequire) THEN <<>> ELSE <<InjectedRequire(dirname)>>)
      \o (IF Has(props, KInclude) THEN <<>> ELSE <<InjectedInclude(mode, dirname, dict)>>)

\* func.apply(func, funcArgs): the value bound to a parameter name
Bound(fr, name) == \E i \in 1..Len(fr.names) : i <= Len(fr.args) /\ fr.names[i] = name
Binding(fr, name) ==
    fr.args[CHOOSE i \in 1..Len(fr.names) : i <= Len(fr.args) /\ fr.names[i] = name]

UndefinedWord == <<"u", "n", "d", "e", "f", "i", "n", "e", "d">>

\* the value of an expression of the body: [ok, v], v the error when not ok
Eval(fr, e) ==
    CASE e.t = "str" -> [ok |-> TRUE, v |-> Str(e.s)]
      [] e.t = "num" -> [ok |-> TRUE, v |-> Num(NumberValue(e.s))]
      [] OTHER ->
            IF Bound(fr, e.s) THEN [ok |-> TRUE, v |-> Binding(fr, e.s)]
            ELSE IF e.s = UndefinedWord THEN [ok |-> TRUE, v |-> Undefined]
            ELSE [ok |-> FALSE, v |-> ReferenceError(e.s)]

\* the first argument that cannot be evaluated, 0 if all can
FirstBad(fr, es) ==
    IF \E i \in 1..Len(es) : ~Eval(fr, es[i]).ok
    THEN CHOOSE i \in 1..Len(es) : ~Eval(fr, es[i]).ok /\ \A j \in 1..(i - 1) : Eval(fr, es[j]).ok
    ELSE 0

Arg(fr, es, i) == IF i <= Len(es) THEN Eval(fr, es[i]).v ELSE Undefined

\* lines 52-57 and 116-121: the path the injected require hands to the host's require
RequirePath(dirname, path) ==
    LET p1 == IF StartsWith(path, <<".", Slash>>) THEN dirname \o Tail(path) ELSE path
    IN  IF StartsWith(p1, <<".", ".", Slash>>) THEN dirname \o <<Slash>> \o p1 ELSE p1

\* IncludePath without the dirname: what C6 rests on
IncludePathAsGiven(dirname, path2) == path2

\* lines 65-67 and 129-131: includes are relative to the current file
IncludePath(dirname, path2) ==
    IF ~isAbsolute(path2) THEN dirname \o <<Slash>> \o path2 ELSE path2

\* Merged with the two Object.assign calls in the other order: what C5 rests on
MergedParentWins(h, dict, dict2) ==
    ObjectAssign(IF dict2.k # "undefined" THEN ObjectAssign(<<>>, Properties(h, dict2)) ELSE <<>>,
                 Properties(h, dict))

\* Merged from the parameters of the parent's func, the injected require and
\* include among them, instead of dict: what C12 rests on
MergedPostInjection(h, dict, dict2) ==
    LET props == Properties(h, dict)
        merged == ObjectAssign(<<>>,
                      props \o (IF Has(props, KRequire) THEN <<>>
                                ELSE << <<KRequire, InjectedRequire(<<>>)>> >>)
                            \o (IF Has(props, KInclude) THEN <<>>
                                ELSE << <<KInclude, InjectedInclude("sync", <<>>, dict)>> >>))
    IN  IF dict2.k # "undefined" THEN ObjectAssign(merged, Properties(h, dict2)) ELSE merged

\* lines 69-73 and 133-137: the context of the nested run
Merged(h, dict, dict2) ==
    LET merged == ObjectAssign(<<>>, Properties(h, dict))
    IN  IF dict2.k # "undefined" THEN ObjectAssign(merged, Properties(h, dict2)) ELSE merged

\* MergedInto with dict itself as the target of Object.assign: what C20 rests on
MergedIntoDict(st, dict, dict2) ==
    [st EXCEPT !.heap = Append([@ EXCEPT ![dict.n] = Merged(st.heap, dict, dict2)],
                               Merged(st.heap, dict, dict2))]

\* lines 69-73 and 133-137: merged is a new object, the last of the heap afterwards
MergedInto(st, dict, dict2) == Allocate(st, Merged(st.heap, dict, dict2))

----------------------------------------------------------------------------
(* The steps of a run.  A frame is at pc "running" while its code executes, *)
(* "threw" once something was thrown (err holds it), "returned" once func   *)
(* has returned, "reading" and "awaiting" while an async run is suspended,  *)
(* "done" in the end.                                                       *)

Raise(st, f, e) == [st EXCEPT !.frames[f].pc = "threw", !.frames[f].err = e]
Advance(st, f) == [st EXCEPT !.frames[f].ip = @ + 1]
Finished(st, f) == [st EXCEPT !.frames[f].pc = "done"]

\* lines 139-145: the callback of a nested include settles the promise
Settled(hasErr, err) == IF hasErr /\ Truthy(err) THEN "rejected" ELSE "resolved"

\* callback(err) when hasErr, callback() otherwise.  The callback of a
\* top-level run is the host program's; that of a nested run settles the promise.
InvokeCallback(before, f, hasErr, err) ==
    The({ [Emit(st, Event("callback", f, 0, IF hasErr THEN <<"err">> ELSE <<>>,
                          IF hasErr THEN err ELSE Undefined))
              EXCEPT !.frames[f].cb = @ + 1,
                     !.frames[f].promise =
                          IF st.frames[f].parent = 0 \/ @ # "pending" THEN @
                          ELSE Settled(hasErr, err)]
          : st \in {before} })

\* EndOfInclude without the return of line 155: what C1 rests on
EndOfIncludeFallsThrough(before, f) ==
    The({ IF st.frames[f].pc = "threw"
          THEN Finished(InvokeCallback(InvokeCallback(st, f, TRUE, st.frames[f].err),
                                       f, FALSE, Undefined), f)
          ELSE Finished(InvokeCallback(st, f, FALSE, Undefined), f)
          : st \in {before} })

\* lines 153-157: the end of include, after its try block threw or not
EndOfInclude(before, f) ==
    The({ IF st.frames[f].pc = "threw"
          THEN Finished(InvokeCallback(st, f, TRUE, st.frames[f].err), f)
          ELSE Finished(InvokeCallback(st, f, FALSE, Undefined), f)
          : st \in {before} })

StringOption(h, options, key, default) ==
    IF TypeOf(options) = "object" /\ Has(Properties(h, options), key)
    THEN Get(Properties(h, options), key).s
    ELSE default

\* lines 43-78 and 106-151: the parameters, the arguments and func
Construct(before, f, parsed) ==
    The({ IF ~body.ok THEN Raise(st, f, SyntaxErrorValue)
          ELSE [st EXCEPT
                  !.frames[f].names = FunctionArgsOf(Properties(st.heap, st.frames[f].dict)),
                  !.frames[f].args = funcArgsOf(Properties(st.heap, st.frames[f].dict),
                                                st.frames[f].mode, st.frames[f].dirname,
                                                st.frames[f].dict),
                  !.frames[f].body = body.stmts,
                  !.frames[f].pc = "running"]
          : st \in {before}, body \in {parsed} })

\* lines 40 and 103: what follows makeRun
Transpiled(before, f, result) ==
    The({ IF ~made.ok THEN Raise(st, f, made.err)
          ELSE Construct(st, f, FunctionBody(made.run, st.frames[f].mode = "async"))
          : st \in {before}, made \in {result} })

\* lines 34-78 and 97-151: from the read of the file to func, ready to run.
\* Only includeSync reads delimiters from options.
ReadAndPrepare(before, f, options) ==
    The({ IF Resolve(st.frames[f].filepath) \notin DOMAIN Files
          THEN Raise(st, f, ReadError(st.frames[f].filepath))
          ELSE Transpiled(
                  [st EXCEPT !.frames[f].dirname = Dirname(Resolve(st.frames[f].filepath))],
                  f,
                  makeRun(Files[Resolve(st.frames[f].filepath)],
                          st.frames[f].mode = "async",
                          IF st.frames[f].mode = "async" THEN DefaultStartDelim
                          ELSE StringOption(st.heap, options, KStartDelim, DefaultStartDelim),
                          IF st.frames[f].mode = "async" THEN DefaultEndDelim
                          ELSE StringOption(st.heap, options, KEndDelim, DefaultEndDelim)))
          : st \in {before} })

\* DictChecked without the check: what C2 rests on
DictUnchecked(before, f, dictError) == [before EXCEPT !.frames[f].pc = "reading"]

\* lines 31-33 and 94-96: the check of dict; a null dict has no property write
DictChecked(before, f, dictError) ==
    The({ IF st.frames[f].dict.k = "null" THEN Raise(st, f, TypeError(KWrite))
          ELSE IF DictRejected(st.heap, st.frames[f].dict) THEN Raise(st, f, dictError)
          ELSE [st EXCEPT !.frames[f].pc = "reading"]
          : st \in {before} })

\* lines 34 and 97: the file read is issued unless the check of dict threw
ReadIssued(before, f) ==
    The({ IF st.frames[f].pc = "reading"
          THEN Emit(st, Event("read", f, 0, st.frames[f].filepath, Undefined))
          ELSE st
          : st \in {before} })

Called(st, mode, filepath, dict, parent, at, awaited) ==
    [st EXCEPT !.frames = Append(@, NewFrame(mode, parent, at, awaited, filepath, dict))]

\* the catch of line 153 when the check of dict threw
StartedOrEnded(before, f) ==
    The({ IF st.frames[f].pc = "threw" THEN EndOfInclude(st, f) ELSE st : st \in {before} })

\* lines 92-97: include up to its first await.  The new frame is the last one.
StartInclude(before, filepath, dict, parent, at, awaited) ==
    The({ StartedOrEnded(
              ReadIssued(DictChecked(Called(st, "async", filepath, dict, parent, at, awaited),
                                     Len(st.frames) + 1, ErrorObj(DictError)),
                         Len(st.frames) + 1),
              Len(st.frames) + 1)
          : st \in {before} })

\* includeSync reads and prepares at once, unless the check of dict threw
ReadAndPreparedSync(before, f, options) ==
    The({ IF st.frames[f].pc = "reading" THEN ReadAndPrepare(st, f, options) ELSE st
          : st \in {[before EXCEPT !.frames[f].options = options]} })

\* lines 30-78: includeSync up to func.apply
StartIncludeSync(before, filepath, dict, options, parent, at) ==
    The({ ReadAndPreparedSync(
              ReadIssued(DictChecked(Called(st, "sync", filepath, dict, parent, at, TRUE),
                                     Len(st.frames) + 1, Str(DictError)),
                         Len(st.frames) + 1),
              Len(st.frames) + 1, options)
          : st \in {before} })

\* Awaiting without the await: what C4 rests on
NotAwaiting(before, f, aw) == Advance(before, f)

\* the await of the promise of the nested include that was just started, the
\* run of the last frame
Awaiting(before, f, aw) ==
    The({ CASE ~aw -> Advance(st, f)
            [] aw /\ st.frames[Len(st.frames)].promise = "pending" ->
                  [st EXCEPT !.frames[f].pc = "awaiting"]
            [] aw /\ st.frames[Len(st.frames)].promise = "rejected" ->
                  Raise(st, f, st.frames[Len(st.frames)].err)
            [] OTHER -> Advance(st, f)
          : st \in {before} })

\* the return of a nested includeSync
Returned(result, f) ==
    The({ IF r.err # NoThrow THEN Raise(r.st, f, r.err) ELSE Advance(r.st, f)
          : r \in {result} })

\* what includeSync gives its caller: the state and the value thrown, or NoThrow
SyncResult(before, f) ==
    The({ [st |-> Finished(st, f),
           err |-> IF st.frames[f].pc = "threw" THEN st.frames[f].err ELSE NoThrow]
          : st \in {before} })

PathWord == <<"p", "a", "t", "h">>

\* NestedOptions handing the options of the including run on: what C19 rests on
NestedOptionsInherited(options) == options

\* line 74: includeSync(path2, merged) is called without a third argument
NestedOptions(options) == Undefined

RECURSIVE Exec(_, _)
RECURSIVE includeSyncRun(_, _, _, _, _, _)

\* one statement of func
ExecStmt(st, f) ==
    LET fr == st.frames[f]
        s == fr.body[fr.ip]
        callee == Eval(fr, Token("id", s.fn, FALSE))
        bad == FirstBad(fr, s.args)
        a1 == Arg(fr, s.args, 1)
        a2 == Arg(fr, s.args, 2)
    IN  CASE s.op = "expr" ->
               IF Eval(fr, s.args[1]).ok THEN Advance(st, f)
               ELSE Raise(st, f, Eval(fr, s.args[1]).v)
          [] s.op = "throw" -> Raise(st, f, Eval(fr, s.args[1]).v)
          [] OTHER ->
             IF ~callee.ok THEN Raise(st, f, callee.v)
             ELSE IF bad # 0 THEN Raise(st, f, Eval(fr, s.args[bad]).v)
             ELSE CASE callee.v.k = "function" ->
                         \* a function of the host program: write, or the caller's own
                         Advance(Emit(st, Event("call", f, fr.ip, callee.v.s, a1)), f)
                    [] callee.v.k = "require" ->
                         \* lines 51-59 and 114-123
                         IF a1.k # "string" THEN Raise(st, f, TypeError(PathWord))
                         ELSE Advance(Emit(st, Event("require", f, fr.ip,
                                                     RequirePath(callee.v.s, a1.s), Undefined)), f)
                    [] callee.v.k = "include" ->
                         \* lines 63-75
                         IF a1.k # "string" THEN Raise(st, f, TypeError(PathWord))
                         ELSE Returned(includeSyncRun(
                                         MergedInto(st, Obj(callee.v.n), a2),
                                         IncludePath(callee.v.s, a1.s),
                                         Obj(Len(st.heap) + 1), NestedOptions(fr.options),
                                         f, fr.ip), f)
                    [] callee.v.k = "includeAsync" ->
                         \* lines 127-147
                         IF a1.k # "string" THEN Raise(st, f, TypeError(PathWord))
                         ELSE Awaiting(StartInclude(
                                         MergedInto(st, Obj(callee.v.n), a2),
                                         IncludePath(callee.v.s, a1.s),
                                         Obj(Len(st.heap) + 1), f, fr.ip, s.aw), f, s.aw)
                    [] OTHER -> Raise(st, f, TypeError(s.fn))

\* func.apply(func, funcArgs), lines 79 and 152: the statements from ip on,
\* until func returns, throws or awaits a pending promise
Exec(before, f) ==
    The({ IF st.frames[f].pc # "running" THEN st
          ELSE IF st.frames[f].ip > Len(st.frames[f].body)
              THEN [st EXCEPT !.frames[f].pc = "returned"]
          ELSE Exec(ExecStmt(st, f), f)
          : st \in {before} })

\* includeSync(filepath, dict, options), lines 30-80
includeSyncRun(before, filepath, dict, options, parent, at) ==
    The({ SyncResult(Exec(StartIncludeSync(st, filepath, dict, options, parent, at),
                          Len(st.frames) + 1),
                     Len(st.frames) + 1)
          : st \in {before} })

\* the run that awaits frame f goes on once the promise of f is settled
Resumed(before, f) ==
    The({ IF st.frames[f].promise = "rejected"
          THEN Raise(st, st.frames[f].parent, st.frames[f].err)
          ELSE [Advance(st, st.frames[f].parent)
                    EXCEPT !.frames[st.frames[f].parent].pc = "running"]
          : st \in {before} })

\* what follows when func of frame f has returned or thrown in async mode:
\* the callback, and through the promise the run that awaits it, and so on up
RECURSIVE Conclude(_, _)
Conclude(before, f) ==
    The({ IF st.frames[f].pc \notin {"returned", "threw"} THEN st
          ELSE IF st.frames[f].parent = 0 \/ ~st.frames[f].awaited THEN EndOfInclude(st, f)
          ELSE Conclude(Exec(Resumed(EndOfInclude(st, f), f), st.frames[f].parent),
                        st.frames[f].parent)
          : st \in {before} })

\* lines 97-157 once the read of frame f has completed
AfterRead(st, f) == Conclude(Exec(ReadAndPrepare(st, f, Undefined), f), f)

----------------------------------------------------------------------------
(* The operations of the program *)

State == [heap |-> heap, frames |-> frames, log |-> log]

Becomes(after) ==
    \E st \in {after} : heap' = st.heap /\ frames' = st.frames /\ log' = st.log

BenchIdle == UNCHANGED <<template, asyncMode, run, written>>

\* what the host program sees of includeSync: it returns, or raises what was thrown
Outcome(result, f) ==
    The({ Emit(r.st, IF r.err # NoThrow THEN Event("raise", f, 0, <<>>, r.err)
                     ELSE Event("return", f, 0, <<>>, Undefined))
          : r \in {result} })

\* the host program calls includeSync(filepath, dict, options); it returns or raises
CallIncludeSync(in) ==
    /\ calls < MaxCalls
    /\ calls' = calls + 1
    /\ Becomes(Outcome(includeSyncRun(State, in.filepath, in.dict, in.options, 0, 0),
                       Len(frames) + 1))
    /\ BenchIdle

\* the host program calls include(filepath, dict, callback); it returns at its first await
CallInclude(in) ==
    /\ calls < MaxCalls
    /\ in.options = Undefined
    /\ calls' = calls + 1
    /\ Becomes(StartInclude(State, in.filepath, in.dict, 0, 0, FALSE))
    /\ BenchIdle

\* the read of a suspended include completes, and everything that follows from it runs
ReadDone(f) ==
    /\ frames[f].pc = "reading"
    /\ UNCHANGED calls
    /\ BenchIdle
    /\ Becomes(AfterRead(State, f))

NoRun == [done |-> FALSE, ok |-> FALSE, run |-> <<>>, err |-> NoThrow]
NotWritten == [done |-> FALSE, ok |-> FALSE, out |-> <<>>, err |-> NoThrow]

Init ==
    /\ heap = InitialHeap
    /\ frames = <<>>
    /\ log = <<>>
    /\ calls = 0
    /\ template = <<>>
    /\ asyncMode = FALSE
    /\ run = NoRun
    /\ written = NotWritten

Next ==
    \/ \E in \in Inputs : CallIncludeSync(in)
    \/ \E in \in Inputs : CallInclude(in)
    \/ \E f \in 1..Len(frames) : ReadDone(f)

Spec == Init /\ [][Next]_vars

\* reads complete: the event loop runs every completion it is handed
FairSpec == Spec /\ WF_vars(\E f \in 1..Len(frames) : ReadDone(f))

----------------------------------------------------------------------------
(* The host program keeps the context object it passed to include, and can  *)
(* assign to it while the run is suspended: include holds dict by reference *)
(* and reads it after its await of the file (lines 108-111) and again at    *)
(* every nested include (line 134).                                         *)

HostKey == <<"e">>
HostValue == Str(<<"H">>)

\* dict.e = 'H' by the host program, while the top-level run f that was given
\* dict is suspended; once for each object
HostAssigns(f) ==
    /\ frames[f].parent = 0
    /\ frames[f].mode = "async"
    /\ frames[f].pc \in {"reading", "awaiting"}
    /\ Has(heap[frames[f].dict.n], HostKey)
    /\ heap[frames[f].dict.n] = InitialHeap[frames[f].dict.n]
    /\ heap' = [heap EXCEPT ![frames[f].dict.n] = Put(@, HostKey, HostValue)]
    /\ log' = Append(log, Event("assign", 0, frames[f].dict.n, HostKey, HostValue))
    /\ UNCHANGED <<frames, calls>>
    /\ BenchIdle

\* the calls whose context object has the key the host program assigns to
HostInputs == {in \in Inputs : in.dict.k = "object" /\ Has(InitialHeap[in.dict.n], HostKey)}

HostNext ==
    \/ \E in \in HostInputs : CallInclude(in)
    \/ \E f \in 1..Len(frames) : ReadDone(f)
    \/ \E f \in 1..Len(frames) : HostAssigns(f)

HostSpec == Init /\ [][HostNext]_vars

----------------------------------------------------------------------------
(* The transpiler on its own: makeRun applied to a template, and the        *)
(* generated source constructed and applied with a context whose write,     *)
(* include and require are functions of the host program.                   *)

Piece ==
    { <<"#">>, <<BS>>, <<SQ>>, <<CR>>, <<LF>>, DefaultStartDelim, DefaultEndDelim,
      CallStmt(WriteWord, Quoted(<<"b">>)), IncludeStmt(Quoted(<<"y">>)) }

\* the templates made of n pieces
RECURSIVE TemplatesOf(_)
TemplatesOf(n) ==
    IF n = 0 THEN {<<>>} ELSE {t \o p : t \in TemplatesOf(n - 1), p \in Piece}

Templates == UNION {TemplatesOf(n) : n \in 0..MaxPieces}

\* a template with two code sections, each a write, closed by the delimiter close
ExampleWith(close) ==
    <<"A", " ">> \o DefaultStartDelim \o <<" ">> \o CallStmt(WriteWord, Quoted(<<"X">>))
        \o <<" ">> \o close \o <<" ", "B", " ">>
        \o DefaultStartDelim \o <<" ">> \o CallStmt(WriteWord, Quoted(<<"Y">>))
        \o <<" ">> \o close \o <<" ", "C">>

\* "A %{ write('X'); %} B %{ write('Y'); %} C" and "A %{ write('X'); }% B %{ write('Y'); }% C"
Examples == {ExampleWith(<<"%", "}">>), ExampleWith(<<"}", "%">>)}

\* the context of the bench: object 6 of the heap
BenchDict == Obj(6)

BenchFrame(am) ==
    Called([heap |-> InitialHeap, frames |-> <<>>, log |-> <<>>],
           IF am THEN "async" ELSE "sync", <<>>, BenchDict, 0, 0, FALSE)

\* Reflect.construct and func.apply on the source src
Applied(src, am) == Exec(Construct(BenchFrame(am), 1, FunctionBody(src, am)), 1)

WrittenBy(after) ==
    The({ [done |-> TRUE, ok |-> st.frames[1].pc = "returned", out |-> st.log,
           err |-> st.frames[1].err]
          : st \in {after} })

Made(result) ==
    The({ [done |-> TRUE, ok |-> made.ok, run |-> made.run, err |-> made.err]
          : made \in {result} })

RuntimeIdle == UNCHANGED <<heap, frames, log, calls>>

\* makeRun(template, asyncMode)
Transpile ==
    /\ ~run.done
    /\ run' = Made(makeRun(template, asyncMode, DefaultStartDelim, DefaultEndDelim))
    /\ UNCHANGED <<template, asyncMode, written>>
    /\ RuntimeIdle

\* the generated source is constructed and applied
Evaluate ==
    /\ run.done /\ run.ok /\ ~written.done
    /\ written' = WrittenBy(Applied(run.run, asyncMode))
    /\ UNCHANGED <<template, asyncMode, run>>
    /\ RuntimeIdle

BenchInit ==
    /\ heap = InitialHeap
    /\ frames = <<>>
    /\ log = <<>>
    /\ calls = 0
    /\ template \in Templates \cup Examples
    /\ asyncMode \in BOOLEAN
    /\ run = NoRun
    /\ written = NotWritten

BenchNext == Transpile \/ Evaluate

BenchSpec == BenchInit /\ [][BenchNext]_vars

----------------------------------------------------------------------------
(* The transpiler as includeSync calls it: the delimiters come from the     *)
(* options object, object 9 of the heap.                                    *)

BenchOptions == Obj(9)

\* an options object: its properties, and the delimiters it is meant to give
Delimiters(props, startDelim, endDelim) ==
    [props |-> props, startDelim |-> startDelim, endDelim |-> endDelim]
OptionsWith(startDelim, endDelim) ==
    Delimiters(<< <<KStartDelim, Str(startDelim)>>, <<KEndDelim, Str(endDelim)>> >>,
               startDelim, endDelim)

\* no options, and delimiters of one, two and three characters
DelimiterChoices ==
    { Delimiters(<<>>, DefaultStartDelim, DefaultEndDelim),
      OptionsWith(<<"<">>, <<">">>),
      OptionsWith(<<"<", "?">>, <<"?", ">">>),
      OptionsWith(<<"<", "?", "?">>, <<"?", "?", ">">>) }

\* the templates of up to MaxPieces pieces: text, the two delimiters, code
RECURSIVE DelimitedTemplatesOf(_, _)
DelimitedTemplatesOf(n, c) ==
    IF n = 0 THEN {<<>>}
    ELSE {t \o p : t \in DelimitedTemplatesOf(n - 1, c),
                   p \in {<<"#">>, c.startDelim, c.endDelim, CallStmt(WriteWord, Quoted(<<"b">>))}}

\* lines 36-40: makeRun(template, false, startDelim, endDelim), the delimiters
\* from options where it has them
TranspileSync ==
    /\ ~run.done
    /\ run' = Made(makeRun(template, FALSE,
                           StringOption(heap, BenchOptions, KStartDelim, DefaultStartDelim),
                           StringOption(heap, BenchOptions, KEndDelim, DefaultEndDelim)))
    /\ UNCHANGED <<template, asyncMode, written>>
    /\ RuntimeIdle

DelimInit ==
    /\ \E c \in DelimiterChoices :
          /\ heap = [InitialHeap EXCEPT ![BenchOptions.n] = c.props]
          /\ template \in UNION {DelimitedTemplatesOf(n, c) : n \in 0..MaxPieces}
    /\ frames = <<>>
    /\ log = <<>>
    /\ calls = 0
    /\ asyncMode = FALSE
    /\ run = NoRun
    /\ written = NotWritten

DelimNext == TranspileSync \/ Evaluate

DelimSpec == DelimInit /\ [][DelimNext]_vars

----------------------------------------------------------------------------
(* Properties *)

Frames == 1..Len(frames)
Positions == 1..Len(log)
TopLevel(f) == frames[f].parent = 0
Failed(f) == frames[f].err # NoThrow
EventsOf(f, e) == {i \in Positions : log[i].f = f /\ log[i].e = e}

\* frame g is frame c or a run nested in it, at any depth
RECURSIVE IsWithin(_, _)
IsWithin(g, c) ==
    IF g = c THEN TRUE ELSE IF frames[g].parent = 0 THEN FALSE ELSE IsWithin(frames[g].parent, c)

\* the arguments of the write calls made by the run f and the runs nested in it
WritesOf(f) ==
    LET evs == SelectSeq(log, LAMBDA ev : ev.e = "call" /\ ev.fn = <<"w">> /\ IsWithin(ev.f, f))
    IN  [i \in 1..Len(evs) |-> evs[i].v]

\* the statement of its parent that started the nested run g, and its arguments
CallOf(g) == frames[frames[g].parent].body[frames[g].at]
TargetOf(g) == Arg(frames[frames[g].parent], CallOf(g).args, 1)
OverrideOf(g) == Arg(frames[frames[g].parent], CallOf(g).args, 2)

\* C1: every run of include invokes its callback exactly once, with an error
\* argument if and only if the run failed, and it does so eventually.
CallbackAtMostOnce ==
    \A f \in Frames : frames[f].mode = "async" =>
        /\ frames[f].cb = Cardinality(EventsOf(f, "callback"))
        /\ frames[f].cb <= 1
        /\ frames[f].cb = 1 <=> frames[f].pc = "done"
        /\ \A i \in EventsOf(f, "callback") :
              /\ log[i].fn = <<"err">> <=> Failed(f)
              /\ Failed(f) => log[i].v = frames[f].err
AllCalledBack == \A f \in Frames : frames[f].mode = "async" => frames[f].cb = 1
LacksWrite(dict) ==
    \/ dict.k # "object"
    \/ ~\E i \in 1..Len(heap[dict.n]) :
            heap[dict.n][i][1] = KWrite /\ heap[dict.n][i][2].k = "function"

\* C2: a run whose context lacks a write function fails without reading the
\* file and without transpiling: includeSync raises, include calls back with the error.
C2_NoWriteFailsBeforeRead ==
    \A f \in Frames : LacksWrite(frames[f].dict) =>
        /\ EventsOf(f, "read") = {}
        /\ frames[f].body = <<>> /\ frames[f].names = <<>> /\ frames[f].dirname = <<>>
        /\ Failed(f) /\ frames[f].pc = "done"
        /\ TopLevel(f) /\ frames[f].mode = "sync" =>
              \E i \in EventsOf(f, "raise") : log[i].v = frames[f].err
        /\ frames[f].mode = "async" =>
              \E i \in EventsOf(f, "callback") : log[i].fn = <<"err">> /\ log[i].v = frames[f].err

\* both entry points were called with a context that has no write function
C2_Witness ==
    \E f, g \in Frames :
        /\ frames[f].mode = "sync" /\ frames[g].mode = "async"
        /\ LacksWrite(frames[f].dict) /\ LacksWrite(frames[g].dict)
        /\ frames[f].dict.k = "object" /\ frames[g].dict.k = "object"
        /\ EventsOf(f, "raise") # {} /\ EventsOf(g, "callback") # {}

\* the least index from which d occurs in t at or after from, 0 if there is none
NextIndex(t, d, from) ==
    LET at == {k \in from..Len(t) : SubSeq(t, k, Min(k + Len(d) - 1, Len(t))) = d}
    IN  IF at = {} THEN 0 ELSE CHOOSE k \in at : \A j \in at : k <= j

\* the text from index from on, which starts outside any code section, leaves a
\* code section open
RECURSIVE OpensUnclosed(_, _)
OpensUnclosed(t, from) ==
    IF NextIndex(t, DefaultStartDelim, from) = 0 THEN FALSE
    ELSE IF NextIndex(t, DefaultEndDelim, NextIndex(t, DefaultStartDelim, from) + 2) = 0 THEN TRUE
    ELSE OpensUnclosed(t, NextIndex(t, DefaultEndDelim,
                                    NextIndex(t, DefaultStartDelim, from) + 2) + 2)

EndsWithSeq(s, p) == Len(s) >= Len(p) /\ SubSeq(s, Len(s) - Len(p) + 1, Len(s)) = p

\* C3: makeRun fails exactly when a code section is opened and never closed;
\* otherwise it returns source that ends with the closed final write call.
C3_FailsIffUnclosed ==
    run.done =>
        /\ ~run.ok <=> OpensUnclosed(template, 1)
        /\ ~run.ok => run.err.k = "error"
        /\ run.ok => EndsWithSeq(run.run, CloseWrite)

\* makeRun has failed on a template that ends inside a code section
C3_Witness ==
    /\ run.done /\ ~run.ok
    /\ template = <<"#">> \o DefaultStartDelim \o CallStmt(WriteWord, Quoted(<<"b">>))

\* C4: the write calls of one run happen in the order of its statements, and
\* everything a nested include does lies between the parent's writes before
\* the include call and the parent's writes after it, which do not happen
\* before the nested run has completed.
C4_WriteOrder ==
    /\ \A i, j \in Positions :
          i < j /\ log[i].e = "call" /\ log[j].e = "call" /\ log[i].f = log[j].f
              => log[i].ip < log[j].ip
    /\ \A c \in Frames : frames[c].parent # 0 =>
          \A i, j \in Positions :
              IsWithin(log[i].f, c) /\ log[j].f = frames[c].parent /\ log[j].e = "call" =>
                  /\ log[j].ip < frames[c].at => j < i
                  /\ log[j].ip > frames[c].at =>
                        i < j /\ \A g \in Frames : IsWithin(g, c) => frames[g].pc = "done"

OutputOfM == <<Str(<<"A">>), Str(<<"B">>), Str(<<"Y">>), Str(<<"D">>), Str(<<"C">>)>>

\* /d/m was run in both modes, and both wrote A B Y D C
C4_Witness ==
    \E f, g \in Frames :
        /\ frames[f].mode = "sync" /\ frames[g].mode = "async"
        /\ TopLevel(f) /\ TopLevel(g)
        /\ frames[f].pc = "done" /\ frames[g].pc = "done"
        /\ WritesOf(f) = OutputOfM /\ WritesOf(g) = OutputOfM

KeySet(props) == {props[i][1] : i \in 1..Len(props)}
\* the properties of the context of run f, and of the override passed to the nested run g
ContextOf(f) == Properties(heap, frames[f].dict)
OverrideProps(g) == Properties(heap, OverrideOf(g))

\* C5: the context of a nested run holds every key of the override with the
\* override's value and every other key of the parent context with the
\* parent's value, and nothing else; without an override it is the parent's.
C5_ShallowRightBiasedMerge ==
    \A g \in Frames : frames[g].parent # 0 =>
        /\ KeySet(ContextOf(g)) = KeySet(ContextOf(frames[g].parent)) \cup KeySet(OverrideProps(g))
        /\ Len(ContextOf(g)) = Cardinality(KeySet(ContextOf(g)))
        /\ \A key \in KeySet(OverrideProps(g)) :
              Get(ContextOf(g), key) = Get(OverrideProps(g), key)
        /\ \A key \in KeySet(ContextOf(frames[g].parent)) \ KeySet(OverrideProps(g)) :
              Get(ContextOf(g), key) = Get(ContextOf(frames[g].parent), key)
        /\ OverrideOf(g) = Undefined => ContextOf(g) = ContextOf(frames[g].parent)

\* the parent {write, a:1, b:2, o} included /d/p with the override {b:3, c:4},
\* and the nested run wrote its a, b and c, 1, 3 and 4, between the empty
\* texts before and after its code section
C5_Witness ==
    \E g \in Frames :
        /\ frames[g].parent # 0
        /\ OverrideProps(g) = << <<<<"b">>, Num(3)>>, <<<<"c">>, Num(4)>> >>
        /\ Get(ContextOf(frames[g].parent), <<"b">>) = Num(2)
        /\ Get(ContextOf(g), <<"o">>) = Obj(3)
        /\ WritesOf(g) = <<Str(<<>>), Num(1), Num(3), Num(4), Str(<<>>)>>

\* the directory of a file: its resolved path up to the last slash
DirectoryOf(p) ==
    LET slashes == {k \in 1..Len(p) : p[k] = Slash}
        last == CHOOSE k \in slashes : \A j \in slashes : j <= k
    IN  IF last = 1 THEN <<Slash>> ELSE SubSeq(p, 1, last - 1)

\* C6: a nested run opens the target as given when it is absolute, and
\* otherwise the target under the directory of the file whose code included
\* it, at every depth.
C6_IncludeRelativeToIncluder ==
    \A g \in Frames : frames[g].parent # 0 =>
        /\ isAbsolute(TargetOf(g).s) => frames[g].filepath = TargetOf(g).s
        /\ ~isAbsolute(TargetOf(g).s) =>
              Resolve(frames[g].filepath) =
                  Resolve(DirectoryOf(Resolve(frames[frames[g].parent].filepath))
                            \o <<Slash>> \o TargetOf(g).s)
        /\ \A i \in EventsOf(g, "read") : log[i].fn = frames[g].filepath

\* /d/m included s/x, which was opened as /d/s/x and included y, which was
\* opened as /d/s/y; and /d/q included /a/x, which was opened as /a/x
C6_Witness ==
    /\ \E g, h \in Frames :
          /\ frames[h].parent = g /\ frames[g].parent # 0
          /\ Resolve(frames[frames[g].parent].filepath) = P(DirD, <<"m">>)
          /\ Resolve(frames[g].filepath) = P(DirS, <<"x">>)
          /\ TargetOf(h).s = <<"y">>
          /\ Resolve(frames[h].filepath) = P(DirS, <<"y">>)
          /\ WritesOf(h) = <<Str(<<"Y">>)>>
    /\ \E g \in Frames :
          /\ frames[g].parent # 0
          /\ TargetOf(g).s = P(DirA, <<"x">>) /\ frames[g].filepath = P(DirA, <<"x">>)
          /\ WritesOf(g) = <<Str(<<"X">>)>>

\* the text before the first start delimiter, and the text after the last
\* code section of a template whose code sections are all closed
FirstSpan(t) ==
    IF NextIndex(t, DefaultStartDelim, 1) = 0 THEN t
    ELSE SubSeq(t, 1, NextIndex(t, DefaultStartDelim, 1) - 1)
RECURSIVE LastSpan(_, _)
LastSpan(t, from) ==
    IF NextIndex(t, DefaultStartDelim, from) = 0 THEN SubSeq(t, from, Len(t))
    ELSE LastSpan(t, NextIndex(t, DefaultEndDelim, NextIndex(t, DefaultStartDelim, from) + 2) + 2)

\* C7: the generated source of a template without code sections evaluates,
\* and writes the template; when the generated source of any template
\* evaluates, its first write is the text before the first code section and
\* its last write is the text after the last one, character for character.
C7_EscapingRoundTrip ==
    written.done =>
        /\ NextIndex(template, DefaultStartDelim, 1) = 0 =>
              /\ written.ok
              /\ written.out = <<Event("call", 1, 2, <<"w">>, Str(template))>>
        /\ written.ok =>
              /\ written.out[1] = Event("call", 1, 2, <<"w">>, Str(FirstSpan(template)))
              /\ written.out[Len(written.out)].fn = <<"w">>
              /\ written.out[Len(written.out)].v = Str(LastSpan(template, 1))

\* a template of a backslash, a quote, a carriage return and a newline was written back
C7_Witness ==
    /\ written.done /\ written.ok
    /\ template = <<BS, SQ, CR, LF>>
    /\ written.out[1].v = Str(<<BS, SQ, CR, LF>>)

\* C8: what a nested run threw is what the run that included it throws, and
\* what a top-level run threw is what its caller is handed: raised by
\* includeSync, passed to the callback of include.
C8_ErrorsSurfaceUnmodified ==
    \A g \in Frames : Failed(g) /\ frames[g].pc = "done" =>
        /\ frames[g].parent # 0 => frames[frames[g].parent].err = frames[g].err
        /\ TopLevel(g) /\ frames[g].mode = "sync" =>
              \E i \in EventsOf(g, "raise") : log[i].v = frames[g].err
        /\ TopLevel(g) /\ frames[g].mode = "async" =>
              \E i \in EventsOf(g, "callback") : log[i].fn = <<"err">> /\ log[i].v = frames[g].err

\* C9: the parameter names and the argument values of a run have the same
\* length; they start with the keys and values of the caller's context in its
\* order, followed by require and then include where the caller gave none.
C9_NamesAndArgsAligned ==
    \A f \in Frames : frames[f].pc \in {"running", "awaiting", "returned", "done"}
                      /\ frames[f].body # <<>> =>
        LET props == ContextOf(f)
            n == Len(props)
            names == frames[f].names
            args == frames[f].args
        IN  /\ Len(names) = Len(args)
            /\ SubSeq(names, 1, n) = [i \in 1..n |-> props[i][1]]
            /\ SubSeq(args, 1, n) = [i \in 1..n |-> props[i][2]]
            /\ SubSeq(names, n + 1, Len(names)) =
                  (IF KRequire \in KeySet(props) THEN <<>> ELSE <<KRequire>>)
                     \o (IF KInclude \in KeySet(props) THEN <<>> ELSE <<KInclude>>)
            /\ \A i \in (n + 1)..Len(names) :
                  /\ names[i] = KRequire => args[i].k = "require"
                  /\ names[i] = KInclude => args[i].k \in {"include", "includeAsync"}
            /\ \A i, j \in 1..Len(names) : names[i] = names[j] => i = j

\* a run whose caller gave require but no include, and a run whose caller gave both
C9_Witness ==
    /\ \E f \in Frames :
          /\ frames[f].names = <<KRequire, KWrite, KInclude>>
          /\ frames[f].args[1] = HostFn(<<"r">>) /\ frames[f].args[3].k = "includeAsync"
    /\ \E f \in Frames :
          /\ frames[f].names = <<KWrite, KInclude, KRequire>>
          /\ frames[f].args = <<WriteFn, HostFn(<<"i">>), HostFn(<<"r">>)>>

\* the same file and context were given to includeSync (run f) and to include (run g)
SameCall(f, g) ==
    /\ TopLevel(f) /\ TopLevel(g)
    /\ frames[f].mode = "sync" /\ frames[g].mode = "async"
    /\ frames[f].filepath = frames[g].filepath /\ frames[f].dict = frames[g].dict
    /\ frames[f].pc = "done" /\ frames[g].pc = "done"

\* C10: includeSync and include, given the same file and context, make the
\* same write calls and both succeed or both fail.
C10_ModesConsistent ==
    \A f, g \in Frames : SameCall(f, g) =>
        /\ WritesOf(f) = WritesOf(g)
        /\ Failed(f) <=> Failed(g)

\* no run nested in run f threw a value that is not truthy
NoFalsyThrow(f) == \A h \in Frames : IsWithin(h, f) /\ Failed(h) => Truthy(frames[h].err)

\* C10 for the runs in which every thrown value is truthy
ModesConsistentForTruthyErrors ==
    \A f, g \in Frames : SameCall(f, g) /\ NoFalsyThrow(f) /\ NoFalsyThrow(g) =>
        /\ WritesOf(f) = WritesOf(g)
        /\ Failed(f) <=> Failed(g)

\* C8 for the runs in which every thrown value is truthy
ErrorsSurfaceWhenTruthy ==
    \A g \in Frames : Failed(g) /\ frames[g].pc = "done" /\ Truthy(frames[g].err) =>
        /\ frames[g].parent # 0 => frames[frames[g].parent].err = frames[g].err
        /\ TopLevel(g) /\ frames[g].mode = "sync" =>
              \E i \in EventsOf(g, "raise") : log[i].v = frames[g].err
        /\ TopLevel(g) /\ frames[g].mode = "async" =>
              \E i \in EventsOf(g, "callback") : log[i].fn = <<"err">> /\ log[i].v = frames[g].err

----------------------------------------------------------------------------
(* Delimiters given in options *)

\* the delimiter that options gives under key, the default one without it
DelimiterGiven(key, default) ==
    IF Has(heap[BenchOptions.n], key) THEN Get(heap[BenchOptions.n], key).s ELSE default

\* the source that a scan of t from index i on is to give when every
\* occurrence of a delimiter, whatever its length, switches the state
RECURSIVE Compiled(_, _, _, _, _)
Compiled(t, startDelim, endDelim, i, inWrite) ==
    IF i > Len(t) THEN (IF inWrite THEN Ok(CloseWrite) ELSE Threw(UnpairedError))
    ELSE LET delim == IF inWrite THEN startDelim ELSE endDelim
             found == Substr(t, i, Len(delim)) = delim
             rest == Compiled(t, startDelim, endDelim,
                              IF found THEN i + Len(delim) ELSE i + 1,
                              IF found THEN ~inWrite ELSE inWrite)
             here == CASE found /\ inWrite -> CloseWrite
                       [] found /\ ~inWrite -> OpenWrite
                       [] ~found /\ inWrite -> EscapeChar(t[i])
                       [] OTHER -> <<t[i]>>
         IN  IF rest.ok THEN Ok(here \o rest.run) ELSE rest

\* C11: with the delimiters given in options, of any length, the start
\* delimiter in WRITE state closes the write call and switches to CODE, the
\* end delimiter in CODE state opens a write call and switches to WRITE, and
\* the scan goes on after the whole delimiter: the compiled source is the one
\* such a scan gives, with no character of a delimiter in it.
C11_DelimitersOfAnyLength ==
    run.done /\ ~asyncMode =>
        LET expected == Compiled(template, DelimiterGiven(KStartDelim, DefaultStartDelim),
                                 DelimiterGiven(KEndDelim, DefaultEndDelim), 1, TRUE)
        IN  /\ run.ok = expected.ok
            /\ run.ok => run.run = RunPrefix \o expected.run

\* the same for delimiters of two characters, which is what the scan compares
DelimitersOfTwoCharacters ==
    (/\ Len(DelimiterGiven(KStartDelim, DefaultStartDelim)) = 2
     /\ Len(DelimiterGiven(KEndDelim, DefaultEndDelim)) = 2) => C11_DelimitersOfAnyLength

\* a start delimiter of more than two characters is never found: the whole
\* template is text.  (One of a single character is found as the last
\* character of the template only, where substr(i, 2) has one character.)
LongDelimitersAreText ==
    (/\ run.done /\ ~asyncMode
     /\ Len(DelimiterGiven(KStartDelim, DefaultStartDelim)) > 2) =>
        /\ run.ok
        /\ written.done =>
              /\ written.ok
              /\ written.out = <<Event("call", 1, 2, <<"w">>, Str(template))>>

----------------------------------------------------------------------------
(* What the merged context is built from *)

\* the parameters of func of run f beyond the keys of its context: the injected ones
InjectedNames(f) == {frames[f].names[i] : i \in 1..Len(frames[f].names)} \ KeySet(ContextOf(f))

\* C12 as stated: the context of a nested run is built from the parent's
\* context after injection, so it holds every parameter of the parent's func,
\* the injected include and require among them, with the parent's value unless
\* the override has the key.
C12_MergedFromPostInjection ==
    \A g \in Frames : frames[g].parent # 0 =>
        \A i \in 1..Len(frames[frames[g].parent].names) :
            /\ Has(ContextOf(g), frames[frames[g].parent].names[i])
            /\ ~Has(OverrideProps(g), frames[frames[g].parent].names[i]) =>
                  Get(ContextOf(g), frames[frames[g].parent].names[i])
                      = frames[frames[g].parent].args[i]

\* C12 amended: the context of a nested run is built from the context object
\* the parent run was given, before injection: it has the key include
\* (require) only where the parent's given context or the override has it, and
\* where it has not, the nested run gets an include (require) of its own,
\* injected for its own file and context.
C12_MergedFromGivenContext ==
    \A g \in Frames : frames[g].parent # 0 =>
        /\ \A key \in {KInclude, KRequire} :
              Has(ContextOf(g), key) <=>
                  Has(ContextOf(frames[g].parent), key) \/ Has(OverrideProps(g), key)
        /\ frames[g].names # <<>> =>
              /\ ~Has(ContextOf(g), KInclude) =>
                    Binding(frames[g], KInclude)
                        = InjectedInclude(frames[g].mode, frames[g].dirname, frames[g].dict)
              /\ ~Has(ContextOf(g), KRequire) =>
                    Binding(frames[g], KRequire) = InjectedRequire(frames[g].dirname)

\* a run with an injected include started a nested run in another directory,
\* whose context has no include and whose func got an include of its own
C12_Witness ==
    \E g \in Frames :
        /\ frames[g].parent # 0
        /\ KInclude \in InjectedNames(frames[g].parent)
        /\ KInclude \in InjectedNames(g)
        /\ frames[g].dirname # frames[frames[g].parent].dirname
        /\ Binding(frames[g], KInclude) # Binding(frames[frames[g].parent], KInclude)

----------------------------------------------------------------------------
(* Contexts and the host program's later assignments *)

\* the top-level run that f is, or is nested in
RECURSIVE RootOf(_)
RootOf(f) == IF frames[f].parent = 0 THEN f ELSE RootOf(frames[f].parent)

\* the host program assigned to the context object of the top-level run f
\* before the call of f, after it
AssignedBeforeCall(f) ==
    \E i \in Positions : /\ log[i].e = "assign" /\ log[i].ip = frames[f].dict.n
                         /\ \A j \in EventsOf(f, "read") : i < j
AssignedAfterCall(f) ==
    \E i \in Positions : /\ log[i].e = "assign" /\ log[i].ip = frames[f].dict.n
                         /\ \E j \in EventsOf(f, "read") : j < i

\* the value of key that func of run f got as its argument
SeenBy(f, key) == Binding(frames[f], key)

\* C13: a run sees the context as it was when the run was called.  For a
\* top-level suspending run whose context object the host program had not
\* touched before the call, the arguments of func are the values the object
\* had then, and so are those of every run nested in it, for the keys that no
\* override on the way replaced.
C13_ContextsAreCopies ==
    \A f \in Frames :
        (/\ frames[f].mode = "async"
         /\ frames[f].names # <<>>
         /\ ~AssignedBeforeCall(RootOf(f))) =>
            \A key \in KeySet(InitialHeap[frames[RootOf(f)].dict.n]) :
                (/\ Bound(frames[f], key)
                 /\ \A g \in Frames : IsWithin(f, g) /\ frames[g].parent # 0 =>
                        ~Has(OverrideProps(g), key)) =>
                    SeenBy(f, key) = Get(InitialHeap[frames[RootOf(f)].dict.n], key)

\* the same where the host program leaves the context object alone while the
\* run is suspended
ContextsAsGivenWhenUntouched ==
    \A f \in Frames :
        (/\ frames[f].mode = "async"
         /\ frames[f].names # <<>>
         /\ ~AssignedBeforeCall(RootOf(f))
         /\ ~AssignedAfterCall(RootOf(f))) =>
            \A key \in KeySet(InitialHeap[frames[RootOf(f)].dict.n]) :
                (/\ Bound(frames[f], key)
                 /\ \A g \in Frames : IsWithin(f, g) /\ frames[g].parent # 0 =>
                        ~Has(OverrideProps(g), key)) =>
                    SeenBy(f, key) = Get(InitialHeap[frames[RootOf(f)].dict.n], key)

----------------------------------------------------------------------------
(* No write after a failure, and none taken back *)

\* the write events of run a, and the write statements of its func before statement k
WriteEventsOf(a) == {i \in EventsOf(a, "call") : log[i].fn = WriteFn.s}
WriteStmtsBefore(a, k) ==
    {j \in 1..(k - 1) : frames[a].body[j].op = "call" /\ frames[a].body[j].fn = WriteWord}

\* the writes of run a are those of its write statements before statement k, all of them
WroteUpTo(a, k) ==
    /\ \A i \in WriteEventsOf(a) : log[i].ip < k
    /\ \A j \in WriteStmtsBefore(a, k) : \E i \in WriteEventsOf(a) : log[i].ip = j

\* C14: once a run has failed, what it wrote before the failing statement is
\* in the output and it wrote nothing after it, and every run that included
\* it, directly or not, wrote what precedes its include statement and nothing
\* after it.
C14_StopsAtFirstError ==
    \A g \in Frames : Failed(g) =>
        /\ WroteUpTo(g, IF frames[g].body = <<>> THEN 1 ELSE frames[g].ip)
        /\ \A c \in Frames : IsWithin(g, c) /\ frames[c].parent # 0 =>
              WroteUpTo(frames[c].parent, frames[c].at)

\* C14 for the runs that threw a truthy value
StopsAtFirstTruthyError ==
    \A g \in Frames : Failed(g) /\ Truthy(frames[g].err) =>
        /\ WroteUpTo(g, IF frames[g].body = <<>> THEN 1 ELSE frames[g].ip)
        /\ \A c \in Frames : IsWithin(g, c) /\ frames[c].parent # 0 =>
              WroteUpTo(frames[c].parent, frames[c].at)

\* C14 for the runs of includeSync
StopsAtFirstErrorSync ==
    \A g \in Frames : Failed(g) /\ frames[g].mode = "sync" =>
        /\ WroteUpTo(g, IF frames[g].body = <<>> THEN 1 ELSE frames[g].ip)
        /\ \A c \in Frames : IsWithin(g, c) /\ frames[c].parent # 0 =>
              WroteUpTo(frames[c].parent, frames[c].at)

----------------------------------------------------------------------------
(* The error of an unterminated code section *)

\* the text of a message, a sequence of parts, holds the characters of name in a row
Names(msg, name) ==
    \E i \in 0..(Len(msg) - Len(name)) : SubSeq(msg, i + 1, i + Len(name)) = name

\* the file of run f ends inside a code section
EndsInCode(f) ==
    /\ Resolve(frames[f].filepath) \in DOMAIN Files
    /\ OpensUnclosed(Files[Resolve(frames[f].filepath)], 1)

\* C15: the error of a run whose file ends inside a code section carries the
\* path of that file, as it was given or resolved, also for a nested run.
C15_UnpairedErrorNamesFile ==
    \A f \in Frames :
        (frames[f].pc = "done" /\ EndsInCode(f) /\ ~LacksWrite(frames[f].dict)) =>
            /\ frames[f].err.k = "error"
            /\ \/ Names(frames[f].err.s, frames[f].filepath)
               \/ Names(frames[f].err.s, Resolve(frames[f].filepath))

\* what the error is: every such run fails with the same message, whatever its file
UnpairedErrorIsTheSameForAllFiles ==
    \A f \in Frames :
        (frames[f].pc = "done" /\ EndsInCode(f) /\ ~LacksWrite(frames[f].dict)) =>
            frames[f].err = UnpairedError

----------------------------------------------------------------------------
(* The example template *)

\* the strings written, one after the other
RECURSIVE Concatenated(_)
Concatenated(evs) ==
    IF evs = <<>> THEN <<>>
    ELSE (IF evs[1].e = "call" /\ evs[1].fn = WriteFn.s THEN evs[1].v.s ELSE <<>>)
            \o Concatenated(Tail(evs))

AXBYC == <<"A", " ", "X", " ", "B", " ", "Y", " ", "C">>

\* C16 as stated: the template "A %{ write('X'); %} B %{ write('Y'); %} C"
\* transpiles and runs, and what it writes is "A X B Y C".
C16_ExampleWritesAXBYC ==
    template = ExampleWith(<<"%", "}">>) =>
        /\ run.done => run.ok
        /\ written.done => written.ok /\ Concatenated(written.out) = AXBYC

\* C16 amended: that template never closes its first code section, since %}
\* is not the end delimiter: makeRun throws the error of an unterminated code
\* section and nothing is run or written.  With }% in the place of %} the
\* template runs and writes "A X B Y C".
C16_ExampleNeedsEndDelimiter ==
    /\ (template = ExampleWith(<<"%", "}">>) /\ run.done) =>
          ~run.ok /\ run.err = UnpairedError /\ written = NotWritten
    /\ template = ExampleWith(<<"}", "%">>) =>
          /\ run.done => run.ok
          /\ written.done => written.ok /\ Concatenated(written.out) = AXBYC

\* makeRun was applied to the template as the claim gives it, and threw
C16_Witness ==
    /\ template = ExampleWith(<<"%", "}">>)
    /\ run.done /\ ~run.ok

\* the template with }% was run and wrote "A X B Y C"
ExampleWithEndDelimiterRan ==
    /\ template = ExampleWith(<<"}", "%">>)
    /\ written.done /\ written.ok
    /\ Concatenated(written.out) = AXBYC

----------------------------------------------------------------------------
(* The rewriting of include( *)

IncludeParen == <<"i", "n", "c", "l", "u", "d", "e", "(">>
AwaitSpace == <<"a", "w", "a", "i", "t", " ">>

\* the indexes at which p occurs in s
Occurrences(s, p) == {k \in 1..Len(s) : SubSeq(s, k, Min(k + Len(p) - 1, Len(s))) = p}

\* the indexes of t inside code sections, for a text that from index from on
\* starts outside any code section
RECURSIVE CodeIndexes(_, _)
CodeIndexes(t, from) ==
    LET start == NextIndex(t, DefaultStartDelim, from)
        end == NextIndex(t, DefaultEndDelim, start + 2)
    IN  IF start = 0 THEN {}
        ELSE IF end = 0 THEN (start + 2)..Len(t)
        ELSE ((start + 2)..(end - 1)) \cup CodeIndexes(t, end + 2)

\* s without its occurrences of "await "
RECURSIVE Unawaited(_)
Unawaited(s) ==
    IF s = <<>> THEN <<>>
    ELSE IF StartsWith(s, AwaitSpace) THEN Unawaited(SubSeq(s, Len(AwaitSpace) + 1, Len(s)))
    ELSE <<Head(s)>> \o Unawaited(Tail(s))

\* C17: in async mode every include( inside a code section, and no other,
\* comes out as "await include(", and nothing else differs from the source of
\* the blocking mode; an include( in the text is written as it is; in
\* blocking mode there is no "await include(" and every include( is kept.
C17_IncludeRewrittenInCodeOnly ==
    run.done /\ run.ok =>
        /\ Cardinality(Occurrences(run.run, IncludeParen))
              = Cardinality(Occurrences(template, IncludeParen))
        /\ asyncMode =>
              /\ Cardinality(Occurrences(run.run, AwaitSpace \o IncludeParen))
                    = Cardinality(Occurrences(template, IncludeParen) \cap CodeIndexes(template, 1))
              /\ Cardinality(Occurrences(run.run, AwaitSpace))
                    = Cardinality(Occurrences(run.run, AwaitSpace \o IncludeParen))
              /\ Ok(Unawaited(run.run))
                    = makeRun(template, FALSE, DefaultStartDelim, DefaultEndDelim)
        /\ ~asyncMode => Occurrences(run.run, AwaitSpace) = {}

\* the template "include('y');%{include('y');}%" was transpiled in async mode:
\* the first include( is text, the second is awaited
C17_Witness ==
    /\ asyncMode /\ run.done /\ run.ok
    /\ template = IncludeStmt(Quoted(<<"y">>)) \o Code(IncludeStmt(Quoted(<<"y">>)))
    /\ Cardinality(Occurrences(run.run, IncludeParen)) = 2
    /\ Cardinality(Occurrences(run.run, AwaitSpace \o IncludeParen)) = 1

----------------------------------------------------------------------------
(* The stages of a run *)

\* the host functions called, the requires and the nested runs of run f: what its code did
DoneByCodeOf(f) == EventsOf(f, "call") \cup EventsOf(f, "require")
NestedIn(f) == {g \in Frames : frames[g].parent = f}

\* C18: the code of a run does nothing before the file was read, transpiled
\* as a whole and the parameters of func were built; a run whose file ends
\* inside a code section throws from the transpiler, builds no parameters,
\* calls no function and starts no nested run, whatever precedes the open
\* code section.
C18_StagesInSequence ==
    \A f \in Frames :
        /\ \A i \in DoneByCodeOf(f) : \E j \in EventsOf(f, "read") : j < i
        /\ \A g \in NestedIn(f) :
              \A i \in EventsOf(g, "read") : \E j \in EventsOf(f, "read") : j < i
        /\ (DoneByCodeOf(f) # {} \/ NestedIn(f) # {}) =>
              frames[f].names # <<>> /\ frames[f].body # <<>>
        /\ (EndsInCode(f) /\ frames[f].pc = "done" /\ ~LacksWrite(frames[f].dict)) =>
              /\ frames[f].err = UnpairedError
              /\ frames[f].names = <<>> /\ frames[f].body = <<>>
              /\ DoneByCodeOf(f) = {} /\ NestedIn(f) = {}

\* /d/h, "H%{write('b');}%G%{ ", was run by includeSync and by include: both
\* failed and wrote nothing
C18_Witness ==
    \E f, g \in Frames :
        /\ frames[f].mode = "sync" /\ frames[g].mode = "async"
        /\ frames[f].filepath = P(DirD, <<"h">>) /\ frames[g].filepath = P(DirD, <<"h">>)
        /\ frames[f].pc = "done" /\ frames[g].pc = "done"
        /\ Failed(f) /\ Failed(g)
        /\ WritesOf(f) = <<>> /\ WritesOf(g) = <<>>

----------------------------------------------------------------------------
(* Options and nested includes *)

\* the statements that the file of run g gives with the default delimiters
DefaultBody(g) ==
    FunctionBody(makeRun(Files[Resolve(frames[g].filepath)], FALSE,
                         DefaultStartDelim, DefaultEndDelim).run, FALSE)

\* C19: a run started by the injected include of includeSync has no options,
\* at any depth and whatever the options of the top-level call: where its
\* file transpiles with the default delimiters, its func is made of that
\* source, and where it does not, the run fails with the transpiler's error.
C19_NestedRunsUseDefaultDelimiters ==
    \A g \in Frames :
        (/\ frames[g].mode = "sync" /\ frames[g].parent # 0
         /\ ~LacksWrite(frames[g].dict)
         /\ Resolve(frames[g].filepath) \in DOMAIN Files) =>
            /\ frames[g].options = Undefined
            /\ IF EndsInCode(g) THEN frames[g].err = UnpairedError
               ELSE IF DefaultBody(g).ok THEN frames[g].body = DefaultBody(g).stmts
               ELSE frames[g].err = SyntaxErrorValue

\* /d/b was run with the delimiters <? and ?> and included /d/j, which wrote
\* its <?J?> as text and ran its %{write(1);}%
C19_Witness ==
    \E f, g \in Frames :
        /\ frames[g].parent = f /\ frames[f].parent = 0
        /\ frames[f].options = Obj(9)
        /\ StringOption(heap, frames[f].options, KStartDelim, DefaultStartDelim) = <<"<", "?">>
        /\ frames[g].options = Undefined
        /\ WritesOf(f) = <<Str(<<"B">>), Str(<<"<", "?", "J", "?", ">">>), Num(1), Str(<<>>),
                          Str(<<"D">>)>>

----------------------------------------------------------------------------
(* Objects are left as they are *)

\* C20: no step of a run changes an object that exists: the contexts given
\* by the caller, the override objects and the merged contexts of nested
\* runs keep their keys and values; a step only adds new objects.
C20_ContextsUnmodified ==
    [][/\ Len(heap') >= Len(heap)
       /\ \A n \in 1..Len(heap) : heap'[n] = heap[n]]_vars

\* a run whose func got an injected include and require has included a
\* template with an override object: context and override are as they were
C20_Witness ==
    \E g \in Frames :
        /\ frames[g].parent # 0 /\ frames[g].pc = "done"
        /\ frames[frames[g].parent].dict = Obj(2) /\ OverrideOf(g) = Obj(3)
        /\ {KInclude, KRequire} \subseteq InjectedNames(frames[g].parent)
        /\ heap[2] = InitialHeap[2] /\ heap[3] = InitialHeap[3]
        /\ heap[frames[g].dict.n] # heap[2]

====
